---- MODULE Spec2Model ----
(***************************************************************************)
(* Diamond pricing engine of diamond_app_ai:                               *)
(*   src/services/openFacetAPI.ts   market-data cache and client           *)
(*   src/services/pricingService.ts grade normaliser, carat-band           *)
(*                                  interpolator, confidence and range,    *)
(*                                  pricing orchestrator                   *)
(*                                                                         *)
(* Units.  Time is counted in ticks of 30 minutes (TicksPerHour = 2), so   *)
(* that ages such as 6 h 30 min are representable.  Carat weights are in   *)
(* hundredths of a carat, log-prices in thousandths.  Strings whose order  *)
(* matters (color grades) are sequences of UTF-16 code units; strings that *)
(* are only compared for equality (clarity, shape category) are TLA+       *)
(* strings.  AsyncStorage is a key-value store whose single operations are *)
(* atomic per key; the awaits of the code are the points where other       *)
(* calls interleave.                                                       *)
(***************************************************************************)
EXTENDS Integers, Sequences, FiniteSets, Bags, TLC

VARIABLES
    now,        \* Date.now(), in ticks
    storage,    \* AsyncStorage: dataset key -> cache entry (or absent)
    calls,      \* the bag of in-flight getter calls (activation records)
    ev,         \* the last completed step, as observed by its caller
    pin,        \* input of the pure-function specifications
    pout        \* output of the pure-function specifications

vars == <<now, storage, calls, ev, pin, pout>>

-----------------------------------------------------------------------------
(* Bounds of the model *)

MaxClockSteps == 2      \* the clock advances at most this many times
MaxCalls == 1           \* stand-alone getter calls in flight at a time
MaxColorLen == 2        \* length of the generated color-grade strings

\* the pure-function specifications have not applied their function yet
NotRun == [done |-> FALSE]

-----------------------------------------------------------------------------
(* Time *)

TicksPerHour == 2
CACHE_EXPIRY_HOURS == 24
TTL == CACHE_EXPIRY_HOURS * TicksPerHour
\* the clock advances in steps of 12 hours: an entry written at t is valid at
\* t + 12 h and is expired exactly from t + 24 h on
ClockStep == TTL \div 2

-----------------------------------------------------------------------------
(* Market data cache: openFacetAPI.ts *)

\* CACHE_KEYS: one storage key per dataset
Datasets == {"matrix", "index", "depth"}

\* the payloads the provider can answer with (two successive publications)
Payloads == {1, 2}

\* AsyncStorage.getItem(key) === null
NoEntry == [present |-> FALSE, data |-> 0, timestamp |-> 0, expiresAt |-> 0]

\* mutant: the entry still counts as valid at its expiry instant
isCacheValidInclusive(cached, t) ==
    IF ~cached.present THEN FALSE ELSE t <= cached.expiresAt

isCacheValid(cached, t) ==
    IF ~cached.present THEN FALSE ELSE t < cached.expiresAt

\* mutant: the expiry is taken in hours, not in clock units
createCacheEntryWrongUnit(data, t) ==
    [present |-> TRUE, data |-> data, timestamp |-> t,
     expiresAt |-> t + CACHE_EXPIRY_HOURS]

createCacheEntry(data, t) ==
    [present |-> TRUE, data |-> data, timestamp |-> t,
     expiresAt |-> t + CACHE_EXPIRY_HOURS * TicksPerHour]

\* mutant: the cache check never succeeds, every call goes to the network
servesFromCacheNever(forceRefresh, cached, t) == FALSE

\* the try-block's cache check: TRUE when the getter returns cached.data
\* without going to the network
servesFromCache(forceRefresh, cached, t) ==
    IF ~forceRefresh
    THEN IF cached.present THEN isCacheValid(cached, t) ELSE FALSE
    ELSE FALSE

\* mutant: the catch-block serves the entry only while it is valid
catchOutcomeValidOnly(cached) ==
    IF isCacheValid(cached, now)
    THEN [kind |-> "return", data |-> cached.data]
    ELSE [kind |-> "throw", data |-> 0]

\* the catch-block: what the getter does after a failed fetch
catchOutcome(cached) ==
    IF cached.present
    THEN [kind |-> "return", data |-> cached.data]
    ELSE [kind |-> "throw", data |-> 0]

NoCachedData == "Failed to fetch and no cached data available"

\* the getter calls in flight (a bag: two calls may be in the same state)
InFlight == BagToSet(calls)

Replace(old, new) == (calls (-) SetToBag({old})) (+) SetToBag({new})

\* a getter is called; the cache check of its try-block
CallGetter(ds, force) ==
    /\ IF servesFromCache(force, storage[ds], now)
       THEN /\ ev' = [op |-> "return", path |-> "hit", ds |-> ds,
                      data |-> storage[ds].data, pre |-> storage[ds],
                      callsBefore |-> calls]
            /\ calls' = calls
       ELSE /\ ev' = [op |-> "request", ds |-> ds, force |-> force]
            /\ calls' = calls (+) SetToBag({[pc |-> "fetch", ds |-> ds,
                                             data |-> 0, at |-> 0,
                                             entry |-> NoEntry]})
    /\ UNCHANGED <<now, storage, pin, pout>>

StartGetter(ds, force) ==
    /\ BagCardinality(calls) < MaxCalls
    /\ CallGetter(ds, force)

\* mutant: the write keeps the data of the entry it finds and replaces the
\* two time fields only
setItemMerging(store, key, value) ==
    IF store[key].present
    THEN [store EXCEPT ![key] = [value EXCEPT !.data = store[key].data]]
    ELSE [store EXCEPT ![key] = value]

\* mutant: a write also renews the expiry of the other entries
setItemRenewingAll(store, key, value) ==
    [d \in DOMAIN store |->
        IF d = key THEN value
        ELSE IF store[d].present
        THEN [store[d] EXCEPT !.expiresAt = value.expiresAt]
        ELSE store[d]]

\* AsyncStorage.setItem(key, JSON.stringify(cacheEntry)): the value of the key
\* is replaced as a whole
setItem(store, key, value) == [store EXCEPT ![key] = value]

\* fetch() and response.json() succeed with payload p: createCacheEntry and
\* the issue of AsyncStorage.setItem
FetchOk(c, p) ==
    /\ c.pc = "fetch"
    /\ calls' = Replace(c, [c EXCEPT !.pc = "store", !.data = p, !.at = now,
                                     !.entry = createCacheEntry(p, now)])
    /\ ev' = [op |-> "fetched"]
    /\ UNCHANGED <<now, storage, pin, pout>>

\* setItem lands and the getter returns the fetched data
StoreDone(c) ==
    /\ c.pc = "store"
    /\ storage' = setItem(storage, c.ds, c.entry)
    /\ ev' = [op |-> "return", path |-> "fresh", ds |-> c.ds,
              data |-> c.data, fetched |-> c.data, at |-> c.at,
              replaced |-> storage[c.ds].present]
    /\ calls' = calls (-) SetToBag({c})
    /\ UNCHANGED <<now, pin, pout>>

\* fetch() rejects, the response is not ok, or its body is no JSON: the
\* catch-block reads the key again
FetchFail(c) ==
    /\ c.pc = "fetch"
    /\ LET cached == storage[c.ds]
           out == catchOutcome(cached)
       IN  ev' = IF out.kind = "return"
                 THEN [op |-> "return", path |-> "stale", ds |-> c.ds,
                       data |-> out.data, pre |-> cached]
                 ELSE [op |-> "throw", ds |-> c.ds, msg |-> NoCachedData,
                       pre |-> cached]
    /\ calls' = calls (-) SetToBag({c})
    /\ UNCHANGED <<now, storage, pin, pout>>

\* mutant: nothing is removed when one of the keys is missing
multiRemoveAllOrNothing(store, keys) ==
    IF \A d \in keys : store[d].present
    THEN [d \in DOMAIN store |-> IF d \in keys THEN NoEntry ELSE store[d]]
    ELSE store

\* AsyncStorage.multiRemove: a key that is not there is skipped
multiRemove(store, keys) ==
    [d \in DOMAIN store |-> IF d \in keys THEN NoEntry ELSE store[d]]

\* clearPricingCache: AsyncStorage.multiRemove of the three keys
clearPricingCache ==
    /\ storage' = multiRemove(storage, Datasets)
    /\ ev' = [op |-> "clear", removed |-> {d \in Datasets : storage[d].present}]
    /\ UNCHANGED <<now, calls, pin, pout>>

\* mutant: an expired entry is reported as not cached
getCacheStatusValidOnly(store, t) ==
    [d \in DOMAIN store |->
        IF isCacheValid(store[d], t)
        THEN [cached |-> TRUE, age |-> (t - store[d].timestamp) \div TicksPerHour]
        ELSE [cached |-> FALSE]]

\* the status object: age is Math.floor((Date.now() - timestamp) / 1 h), and
\* is left undefined (no field here) for a key without entry
getCacheStatus(store, t) ==
    [d \in DOMAIN store |->
        IF store[d].present
        THEN [cached |-> TRUE, age |-> (t - store[d].timestamp) \div TicksPerHour]
        ELSE [cached |-> FALSE]]

\* a call of getCacheStatus: the three keys are read, nothing is written;
\* the three reads are taken at one instant
GetCacheStatus ==
    /\ ev' = [op |-> "status", status |-> getCacheStatus(storage, now)]
    /\ UNCHANGED <<now, storage, calls, pin, pout>>

Tick ==
    /\ now + ClockStep <= MaxClockSteps * ClockStep
    /\ now' = now + ClockStep
    /\ ev' = [op |-> "tick"]
    /\ UNCHANGED <<storage, calls, pin, pout>>

-----------------------------------------------------------------------------
(* The cache layer under concurrent getter calls, clears and clock advances *)

Init ==
    /\ now = 0
    /\ storage = [d \in Datasets |-> NoEntry]
    /\ calls = EmptyBag
    /\ ev = [op |-> "init"]
    /\ pin = NotRun
    /\ pout = NotRun

Next ==
    \/ \E ds \in Datasets, force \in BOOLEAN : StartGetter(ds, force)
    \/ \E c \in InFlight, p \in Payloads : FetchOk(c, p)
    \/ \E c \in InFlight : StoreDone(c)
    \/ \E c \in InFlight : FetchFail(c)
    \/ clearPricingCache
    \/ Tick

Spec == Init /\ [][Next]_vars

-----------------------------------------------------------------------------
(* Claims about the cache layer, checked under Spec *)

\* C1: after a failed fetch the getter returns the data of the entry that is
\* in storage, expired or not, and it throws "no cached data available" only
\* when storage holds no entry for the dataset.
C1_StaleServe ==
    /\ (ev.op = "return" /\ ev.path = "stale") =>
          /\ ev.pre.present
          /\ ev.data = ev.pre.data
          /\ storage[ev.ds] = ev.pre
    /\ ev.op = "throw" =>
          /\ ~storage[ev.ds].present
          /\ ev.pre = NoEntry
          /\ ev.msg = NoCachedData

\* a stale serve of an entry that has expired
C1_Witness ==
    /\ ev.op = "return" /\ ev.path = "stale"
    /\ now >= storage[ev.ds].expiresAt

\* C2: without forceRefresh, an entry that exists and has now < expiresAt is
\* returned with no network request and no change of storage; an absent
\* entry, or one with now >= expiresAt, leads to a network request.
C2_CacheHit ==
    /\ (ev.op = "return" /\ ev.path = "hit") =>
          /\ ev.pre.present
          /\ now < ev.pre.expiresAt
          /\ ev.data = ev.pre.data
          /\ storage[ev.ds] = ev.pre
          /\ calls = ev.callsBefore
    /\ (ev.op = "request" /\ ~ev.force) =>
          /\ ~storage[ev.ds].present \/ now >= storage[ev.ds].expiresAt
          /\ \E c \in InFlight : c.pc = "fetch" /\ c.ds = ev.ds

\* a cache hit in the last tick before the entry expires
C2_Witness ==
    /\ ev.op = "return" /\ ev.path = "hit"
    /\ now > ev.pre.timestamp
    /\ now + ClockStep >= ev.pre.expiresAt

\* C3: a getter whose fetch succeeded returns the fetched payload and leaves
\* {data: payload, timestamp: t, expiresAt: t + 24 h} in storage, t being the
\* time of createCacheEntry; every stored entry has expiresAt - timestamp =
\* 24 h.
C3_FreshStore ==
    /\ (ev.op = "return" /\ ev.path = "fresh") =>
          /\ ev.data = ev.fetched
          /\ storage[ev.ds] = [present |-> TRUE, data |-> ev.fetched,
                               timestamp |-> ev.at,
                               expiresAt |-> ev.at + 24 * TicksPerHour]
    /\ \A d \in Datasets :
          storage[d].present =>
             storage[d].expiresAt - storage[d].timestamp = 24 * TicksPerHour

\* a successful fetch that replaced an earlier entry holding other data
C3_Witness ==
    /\ ev.op = "return" /\ ev.path = "fresh"
    /\ ev.replaced
    /\ ev.at > 0

\* C28: once clearPricingCache has resolved, no entry is present until a
\* getter that started after the clear stores one, also with getters in
\* flight at the clear.  In the step that follows a clear made with getters
\* in flight (each of them started before the clear) no entry becomes
\* present, and none of those getters issues the write of an entry.
C28_AbsentUntilNewGetterStores ==
    [][(ev.op = "clear" /\ calls # EmptyBag) =>
          /\ \A d \in Datasets : ~storage'[d].present
          /\ \A c \in BagToSet(calls') : c.pc = "store" => c \in InFlight]_vars

-----------------------------------------------------------------------------
(* The cache layer with one operation at a time: getter calls, clears,     *)
(* status reads and clock advances, a getter being called only when no     *)
(* other getter is in flight.                                               *)

StartGetterAlone(ds, force) ==
    /\ calls = EmptyBag
    /\ StartGetter(ds, force)

NextStatus ==
    \/ \E ds \in Datasets, force \in BOOLEAN : StartGetterAlone(ds, force)
    \/ \E c \in InFlight, p \in Payloads : FetchOk(c, p)
    \/ \E c \in InFlight : StoreDone(c)
    \/ \E c \in InFlight : FetchFail(c)
    \/ clearPricingCache
    \/ GetCacheStatus
    \/ Tick

SpecStatus == Init /\ [][NextStatus]_vars

\* C14: clearPricingCache leaves no entry for any dataset, whichever
\* entries were there; with no getter in flight, a getCacheStatus that
\* follows reports cached = false three times, a getter call that follows
\* goes to the network, and when that fetch fails the getter throws "no
\* cached data available".
C14_ClearRemovesAll ==
    /\ [](ev.op = "clear" => \A d \in Datasets : ~storage[d].present)
    /\ [][(ev.op = "clear" /\ calls = EmptyBag /\ ev'.op = "status") =>
             \A d \in Datasets : ~ev'.status[d].cached]_vars
    /\ [][(ev.op = "clear" /\ calls = EmptyBag /\ ev'.op \in {"return", "request"}) =>
             /\ ev'.op = "request"
             /\ BagCardinality(calls') = 1]_vars
    /\ [][(/\ ev.op = "request"
           /\ BagCardinality(calls) = 1
           /\ \A d \in Datasets : ~storage[d].present
           /\ ev'.op \in {"return", "throw"}) =>
             ev'.op = "throw" /\ ev'.msg = NoCachedData]_vars

\* a clear that found the matrix entry and no other, with no getter in flight
C14_Witness ==
    /\ ev.op = "clear"
    /\ ev.removed = {"matrix"}
    /\ calls = EmptyBag

\* the age a status reports for an entry captured at ts and read at t:
\* the whole hours of t - ts
IsWholeHours(age, ts, t) ==
    /\ age * TicksPerHour <= t - ts
    /\ t - ts < (age + 1) * TicksPerHour

\* C15: getCacheStatus reports for each dataset cached = true exactly when
\* storage holds an entry for it, valid or expired, with the whole hours
\* since the entry's timestamp as its age, and no age otherwise; the call
\* changes neither storage nor the getters in flight (it starts no fetch).
C15_StatusReadOnly ==
    /\ [](ev.op = "status" =>
            \A d \in Datasets :
               /\ ev.status[d].cached = storage[d].present
               /\ storage[d].present =>
                     IsWholeHours(ev.status[d].age, storage[d].timestamp, now)
               /\ ~storage[d].present => DOMAIN ev.status[d] = {"cached"})
    /\ [](\A ts \in 0..3, dt \in 0..5 :
            LET st == getCacheStatus([storage EXCEPT !["matrix"] =
                                         createCacheEntry(1, ts)], ts + dt)
            IN  st["matrix"].cached /\ IsWholeHours(st["matrix"].age, ts, ts + dt))
    /\ [][ev'.op = "status" =>
             storage' = storage /\ calls' = calls /\ now' = now]_vars

\* a status taken when the matrix entry has expired and the index entry is
\* missing
C15_Witness ==
    /\ ev.op = "status"
    /\ storage["matrix"].present
    /\ ~isCacheValid(storage["matrix"], now)
    /\ ev.status["matrix"] = [cached |-> TRUE, age |-> CACHE_EXPIRY_HOURS]
    /\ ev.status["index"] = [cached |-> FALSE]

\* C26: the entry of a dataset changes only when a fetch of that dataset
\* has succeeded, which replaces it with the whole entry of that fetch, or
\* when clearPricingCache removes it; a failed fetch, a cache hit, a stale
\* serve and getCacheStatus leave storage as it is; a stale serve leaves
\* the expired entry expired, so a later call is not served from the cache;
\* and a getter leaves the entries of the other two datasets alone.
C26_OnlyFetchOrClearChanges ==
    /\ [][\A d \in Datasets :
             storage'[d] # storage[d] =>
                \/ /\ ev'.op = "return"
                   /\ ev'.path = "fresh"
                   /\ ev'.ds = d
                   /\ storage'[d] = createCacheEntry(ev'.fetched, ev'.at)
                \/ /\ ev'.op = "clear"
                   /\ storage'[d] = NoEntry]_vars
    /\ [][(\/ ev'.op \in {"request", "fetched", "throw", "status", "tick"}
           \/ ev'.op = "return" /\ ev'.path \in {"hit", "stale"}) =>
             storage' = storage]_vars
    /\ [][(ev'.op = "return" /\ ev'.path = "stale") =>
             /\ storage'[ev'.ds] = ev'.pre
             /\ ~isCacheValid(storage'[ev'.ds], now') =>
                   ~servesFromCache(FALSE, storage'[ev'.ds], now')]_vars
    /\ [][(ev'.op = "return" /\ ev'.path = "hit") =>
             isCacheValid(storage[ev'.ds], now)]_vars
    /\ [][ev'.op \in {"return", "throw", "request"} =>
             \A d \in Datasets \ {ev'.ds} : storage'[d] = storage[d]]_vars

\* a stale serve: the expired entry is still there, still expired, and the
\* entry of another dataset is there too
C26_Witness ==
    /\ ev.op = "return"
    /\ ev.path = "stale"
    /\ storage[ev.ds] = ev.pre
    /\ storage[ev.ds].present
    /\ ~isCacheValid(storage[ev.ds], now)
    /\ \E d \in Datasets \ {ev.ds} : storage[d].present

-----------------------------------------------------------------------------
(* Getter calls racing on one dataset.  Up to MaxRacers calls of            *)
(* fetchPriceMatrix are in flight together, whoever made them (a pricing    *)
(* request calls the getter without forceRefresh).  The provider answers a  *)
(* fetch that completes at time t with the payload Provider(t), so that the *)
(* pair of a payload and the time of its createCacheEntry identifies the    *)
(* fetch it comes from.                                                      *)

\* getter calls in flight together
MaxRacers == 2

Provider(t) == ((t \div ClockStep) % Cardinality(Payloads)) + 1

StartRacer(force) ==
    /\ BagCardinality(calls) < MaxRacers
    /\ CallGetter("matrix", force)

NextRace ==
    \/ \E force \in BOOLEAN : StartRacer(force)
    \/ \E c \in InFlight : FetchOk(c, Provider(now))
    \/ \E c \in InFlight : StoreDone(c)
    \/ \E c \in InFlight : FetchFail(c)
    \/ Tick

SpecRace == Init /\ [][NextRace]_vars

\* the entry is the whole result of one fetch: the payload the provider
\* gave at the entry's timestamp, with the expiry of that timestamp
IsOneFetch(entry) ==
    entry = createCacheEntry(Provider(entry.timestamp), entry.timestamp)

\* C16: whatever the interleaving of the getter calls on a dataset, the
\* stored entry is absent or the whole entry of one fetch; storage changes
\* only when a getter that fetched lands its write, and then to exactly that
\* getter's entry, so that the stored entry is always the last writer's; and
\* a getter returns the payload of its own fetch or the data of the entry
\* that is in storage when it returns.
C16_NoTornEntry ==
    /\ [](\A d \in Datasets : storage[d].present => IsOneFetch(storage[d]))
    /\ [](ev.op = "return" =>
            IF ev.path = "fresh"
            THEN ev.data = Provider(ev.at) /\ ev.data = ev.fetched
            ELSE /\ storage[ev.ds] = ev.pre
                 /\ ev.data = ev.pre.data
                 /\ IsOneFetch(ev.pre))
    /\ [][storage' # storage =>
             /\ ev'.op = "return" /\ ev'.path = "fresh"
             /\ storage' = [storage EXCEPT ![ev'.ds] =
                               createCacheEntry(ev'.fetched, ev'.at)]]_vars

\* a write that lands late: the getter fetched at time 0, another getter's
\* entry is already stored, and a third call holds a newer result in flight
C16_Witness ==
    /\ ev.op = "return" /\ ev.path = "fresh"
    /\ ev.replaced
    /\ ev.at = 0
    /\ storage["matrix"].timestamp = 0
    /\ \E c \in InFlight : c.pc = "store" /\ c.at > 0 /\ c.data # ev.data

-----------------------------------------------------------------------------
(* Grade normaliser: pricingService.ts.  A string is the sequence of its   *)
(* UTF-16 code units; JavaScript's < and > on strings compare them         *)
(* lexicographically by code unit, a proper prefix sorting first.          *)

StrLt(a, b) ==
    \E k \in 1..Len(b) :
        /\ \A i \in 1..(k - 1) : i <= Len(a) /\ a[i] = b[i]
        /\ k > Len(a) \/ a[k] < b[k]

\* String.prototype.toUpperCase on the letters a..z
toUpperCase(str) ==
    [i \in 1..Len(str) |-> IF str[i] \in 97..122 THEN str[i] - 32 ELSE str[i]]

S_Colorless == <<67, 111, 108, 111, 114, 108, 101, 115, 115>>
S_NearColorless == <<78, 101, 97, 114, 32, 67, 111, 108, 111, 114, 108, 101, 115, 115>>
S_Faint == <<70, 97, 105, 110, 116>>
S_Light == <<76, 105, 103, 104, 116>>
S_DF == <<68, 45, 70>>
S_GJ == <<71, 45, 74>>
S_KM == <<75, 45, 77>>
S_NR == <<78, 45, 82>>
S_SZ == <<83, 45, 90>>
S_D == <<68>>
S_E == <<69>>
S_H == <<72>>
S_L == <<76>>
S_M == <<77>>
S_Z == <<90>>

\* the keys of colorMap
colorMapKeys ==
    {S_Colorless, S_NearColorless, S_Faint, S_Light, S_DF, S_GJ, S_KM, S_NR, S_SZ}

\* colorMap[key], for a key of the map
colorMap(key) ==
    CASE key = S_Colorless -> S_E
      [] key = S_NearColorless -> S_H
      [] key = S_Faint -> S_L
      [] key = S_Light -> S_M
      [] key = S_DF -> S_E
      [] key = S_GJ -> S_H
      [] key = S_KM -> S_L
      [] key = S_NR -> S_M
      [] key = S_SZ -> S_M

\* colorMap is an object literal, so colorMap[key] also finds what the map
\* inherits from Object.prototype: 'constructor', 'hasOwnProperty',
\* 'toString', 'valueOf' (functions) and '__proto__' (an object), among
\* others.  All of them are truthy, so the || of line 77 keeps them.
S_constructor == <<99, 111, 110, 115, 116, 114, 117, 99, 116, 111, 114>>
S_hasOwnProperty == <<104, 97, 115, 79, 119, 110, 80, 114, 111, 112, 101, 114, 116, 121>>
S_toString == <<116, 111, 83, 116, 114, 105, 110, 103>>
S_valueOf == <<118, 97, 108, 117, 101, 79, 102>>
S___proto__ == <<95, 95, 112, 114, 111, 116, 111, 95, 95>>

objectPrototypeKeys ==
    {S_constructor, S_hasOwnProperty, S_toString, S_valueOf, S___proto__}

\* the string an inherited value converts to when < and > compare it with a
\* label: 'function ' and a name and body that depend on the engine, of
\* which the first nine code units are kept, or '[object Object]'
S_function == <<102, 117, 110, 99, 116, 105, 111, 110, 32>>
S_objectObject == <<91, 111, 98, 106, 101, 99, 116, 32, 79, 98, 106, 101, 99, 116, 93>>

inheritedAsString(key) == IF key = S___proto__ THEN S_objectObject ELSE S_function

\* colorMap[colorGrade] || colorGrade.toUpperCase()
mappedOrUpperCased(colorGrade) ==
    IF colorGrade \in colorMapKeys THEN colorMap(colorGrade)
    ELSE IF colorGrade \in objectPrototypeKeys THEN inheritedAsString(colorGrade)
    ELSE toUpperCase(colorGrade)

\* mutant: the clamp to the maximum grade is missing
normalizeColorGradeNoMaxClamp(colorGrade, availableGrades) ==
    LET normalizedGrade == mappedOrUpperCased(colorGrade)
    IN  IF Len(availableGrades) > 0
        THEN IF StrLt(normalizedGrade, availableGrades[1])
             THEN availableGrades[1] ELSE normalizedGrade
        ELSE normalizedGrade

\* availableGrades undefined is the empty list: both skip the clamping
normalizeColorGrade(colorGrade, availableGrades) ==
    LET normalizedGrade == mappedOrUpperCased(colorGrade)
    IN  IF Len(availableGrades) > 0
        THEN LET minGrade == availableGrades[1]
                 maxGrade == availableGrades[Len(availableGrades)]
                 atLeastMin == IF StrLt(normalizedGrade, minGrade)
                               THEN minGrade ELSE normalizedGrade
             IN  IF StrLt(maxGrade, atLeastMin) THEN maxGrade ELSE atLeastMin
        ELSE normalizedGrade

\* Array.prototype.indexOf: the first 0-based position of x, or -1
indexOf(list, x) ==
    IF \E i \in 1..Len(list) : list[i] = x
    THEN (CHOOSE i \in 1..Len(list) :
             list[i] = x /\ \A j \in 1..(i - 1) : list[j] # x) - 1
    ELSE -1

-----------------------------------------------------------------------------
(* The normaliser applied to one color input and one row-label list *)

\* the rows D..M of the provider's matrix, and shorter ascending lists
ROWS_D_M == <<S_D, S_E, <<70>>, <<71>>, S_H, <<73>>, <<74>>, <<75>>, S_L, S_M>>
RowLists ==
    {ROWS_D_M, SubSeq(ROWS_D_M, 1, 7), SubSeq(ROWS_D_M, 4, 6), <<S_H>>}

\* the code units the generated inputs are made of: - D F M Z d
ColorAlphabet == {45, 68, 70, 77, 90, 100}

S_Unknown == <<85, 110, 107, 110, 111, 119, 110>>
S_Fancy == <<70, 97, 110, 99, 121>>
S_faint == <<102, 97, 105, 110, 116>>
S_df == <<100, 45, 102>>

\* every key of the map, every single letter in both cases, the default
\* 'Unknown' of the color classifier, lower-case spellings of keys, names
\* the map inherits, and all strings over ColorAlphabet up to MaxColorLen
ColorInputs ==
    colorMapKeys
      \cup {<<c>> : c \in (65..90) \cup (97..122)}
      \cup {S_Unknown, S_Fancy, S_faint, S_df, toUpperCase(S_Faint)}
      \cup objectPrototypeKeys
      \cup {[i \in 1..Len(k) |-> IF k[i] \in 65..90 THEN k[i] + 32 ELSE k[i]] :
               k \in colorMapKeys}
      \cup UNION {[1..n -> ColorAlphabet] : n \in 0..MaxColorLen}

InitColor ==
    /\ now = 0
    /\ storage = [d \in Datasets |-> NoEntry]
    /\ calls = EmptyBag
    /\ ev = [op |-> "init"]
    /\ pin \in [color : ColorInputs, rows : RowLists]
    /\ pout = NotRun

NormalizeColor ==
    /\ ~pout.done
    /\ LET grade == normalizeColorGrade(pin.color, pin.rows)
       IN  pout' = [done |-> TRUE,
                    grade |-> grade,
                    again |-> normalizeColorGrade(grade, pin.rows),
                    colorIndex |-> indexOf(pin.rows, grade)]
    /\ UNCHANGED <<now, storage, calls, ev, pin>>

NextColor == NormalizeColor

SpecColor == InitColor /\ [][NextColor]_vars

\* C7: the normalised grade is always one of the row labels, so the lookup of
\* the color in the matrix (indexOf) never answers -1.
C7_AlwaysRowLabel ==
    pout.done =>
       /\ \E i \in 1..Len(pin.rows) : pin.rows[i] = pout.grade
       /\ pout.colorIndex # -1

\* C8: for a non-empty ascending row-label list the normalised grade g has
\* minLabel <= g <= maxLabel in string order; "Z" with rows up to "M" gives "M".
C8_Clamped ==
    pout.done =>
       /\ ~StrLt(pout.grade, pin.rows[1])
       /\ ~StrLt(pin.rows[Len(pin.rows)], pout.grade)
       /\ (pin.color = S_Z /\ pin.rows = ROWS_D_M) => pout.grade = S_M

\* an input above the grid's range that was clamped to the maximum label
C8_Witness ==
    /\ pout.done
    /\ pin.color = S_Z
    /\ pin.rows = ROWS_D_M
    /\ pout.grade = S_M

\* C9: normalising twice gives the same grade as normalising once, and a
\* single capital letter within the range of the rows is returned unchanged.
C9_Idempotent ==
    pout.done =>
       /\ pout.again = pout.grade
       /\ (/\ Len(pin.color) = 1
           /\ pin.color[1] \in 65..90
           /\ ~StrLt(pin.color, pin.rows[1])
           /\ ~StrLt(pin.rows[Len(pin.rows)], pin.color)) => pout.grade = pin.color

\* a grade brought into the range of the rows: the first label when it
\* sorts before it, the last label when it sorts after it
Clamped(grade, rows) ==
    IF StrLt(grade, rows[1]) THEN rows[1]
    ELSE IF StrLt(rows[Len(rows)], grade) THEN rows[Len(rows)]
    ELSE grade

\* C25: with the rows D..M, 'Colorless' and 'D-F' give E, 'Near Colorless'
\* and 'G-J' give H, 'Faint' and 'K-M' give L, 'Light', 'N-R' and 'S-Z'
\* give M; and an input that is none of these nine keys is upper-cased and
\* clamped to the rows, nothing else.
C25_NineKeysElseUpperCase ==
    pout.done =>
       /\ pin.rows = ROWS_D_M =>
             /\ pin.color \in {S_Colorless, S_DF} => pout.grade = S_E
             /\ pin.color \in {S_NearColorless, S_GJ} => pout.grade = S_H
             /\ pin.color \in {S_Faint, S_KM} => pout.grade = S_L
             /\ pin.color \in {S_Light, S_NR, S_SZ} => pout.grade = S_M
       /\ pin.color \notin {S_Colorless, S_DF, S_NearColorless, S_GJ, S_Faint,
                             S_KM, S_Light, S_NR, S_SZ} =>
             pout.grade = Clamped(toUpperCase(pin.color), pin.rows)

-----------------------------------------------------------------------------
(* Carat-band interpolator: pricingService.ts.  A carat weight is a number *)
(* of hundredths of a carat.  A key of matrix.l or of a depth table is the *)
(* decimal numeral [int, frac]: "1.0" is [int |-> 1, frac |-> <<0>>], "1"  *)
(* is [int |-> 1, frac |-> <<>>].  A log-price is a number of thousandths; *)
(* a quotient the code leaves unrounded is the fraction [n, d] with d > 0, *)
(* so the arithmetic here is that of the reals; the rounding of doubles   *)
(* in interpolateLogPrice is modelled by interpolateLogPriceFloat below.   *)

\* the value of bands[i] for an index outside the array
Undefined == 0 - 1

\* the numeral "NaN", which Number(undefined).toFixed(1) gives
NaNKey == [int |-> 0 - 1, frac |-> <<>>]

\* parseFloat of a numeral with at most two decimals, in hundredths
parseFloat(key) ==
    key.int * 100
      + (IF Len(key.frac) >= 1 THEN key.frac[1] * 10 ELSE 0)
      + (IF Len(key.frac) >= 2 THEN key.frac[2] ELSE 0)

\* mutant: the band is formatted as String(x) does, "1" for 1.0
toFixed1Trimmed(x) ==
    IF x = Undefined THEN NaNKey
    ELSE LET tenths == (x + 5) \div 10
         IN  [int |-> tenths \div 10,
              frac |-> IF tenths % 10 = 0 THEN <<>> ELSE <<tenths % 10>>]

\* Number(x).toFixed(1): one decimal, halves rounded up
toFixed1(x) ==
    IF x = Undefined THEN NaNKey
    ELSE LET tenths == (x + 5) \div 10
         IN  [int |-> tenths \div 10, frac |-> <<tenths % 10>>]

\* Number.prototype.toString of a weight: no trailing zeros, no bare point
numberToString(x) ==
    [int |-> x \div 100,
     frac |-> IF x % 100 = 0 THEN <<>>
              ELSE IF x % 10 = 0 THEN <<(x % 100) \div 10>>
              ELSE <<(x % 100) \div 10, x % 10>>]

\* Object.keys(matrixData.l).map(k => parseFloat(k)).sort((a, b) => a - b)
RECURSIVE sortAscending(_)
sortAscending(S) ==
    IF S = {} THEN <<>>
    ELSE LET least == CHOOSE x \in S : \A y \in S : x <= y
         IN  <<least>> \o sortAscending(S \ {least})

availableBandsOf(matrix) == sortAscending({parseFloat(k) : k \in DOMAIN matrix.l})

\* bands[i] of JavaScript (0-based), undefined outside the array
At(bands, i) == IF i >= 0 /\ i < Len(bands) THEN bands[i + 1] ELSE Undefined

\* lines 116-134: the bracketing loop, the two extrapolations, the throw;
\* a comparison with undefined is false
bracketOrExtrapolate(caratWeight, bands) ==
    IF \E i \in 0..(Len(bands) - 2) :
           At(bands, i) < caratWeight /\ caratWeight < At(bands, i + 1)
    THEN LET i == CHOOSE i \in 0..(Len(bands) - 2) :
                      /\ At(bands, i) < caratWeight /\ caratWeight < At(bands, i + 1)
                      /\ \A j \in 0..(i - 1) :
                            ~(At(bands, j) < caratWeight /\ caratWeight < At(bands, j + 1))
         IN  [kind |-> "bands", band1 |-> At(bands, i), band2 |-> At(bands, i + 1)]
    ELSE IF At(bands, 0) # Undefined /\ caratWeight < At(bands, 0)
    THEN [kind |-> "bands", band1 |-> At(bands, 0), band2 |-> At(bands, 1)]
    ELSE IF At(bands, Len(bands) - 1) # Undefined
            /\ caratWeight > At(bands, Len(bands) - 1)
    THEN [kind |-> "bands", band1 |-> At(bands, Len(bands) - 2),
          band2 |-> At(bands, Len(bands) - 1)]
    ELSE [kind |-> "throw", band1 |-> Undefined, band2 |-> Undefined]

\* mutant: the exact-match test of line 111 is missing
findCaratBandsNoExact(caratWeight, bands) ==
    bracketOrExtrapolate(caratWeight, bands)

\* bands is availableBands, sorted ascending
findCaratBands(caratWeight, bands) ==
    IF \E i \in 1..Len(bands) : bands[i] = caratWeight
    THEN [kind |-> "bands", band1 |-> caratWeight, band2 |-> caratWeight]
    ELSE bracketOrExtrapolate(caratWeight, bands)

\* mutant: a grade that is not in the label list is priced as the first one
getLogPriceFirstLabel(matrix, caratBand, colorGrade, clarityGrade) ==
    LET caratKey == toFixed1(caratBand)
        colorIndex == IF indexOf(matrix.r, colorGrade) = -1 THEN 0
                      ELSE indexOf(matrix.r, colorGrade)
        clarityIndex == IF indexOf(matrix.c, clarityGrade) = -1 THEN 0
                        ELSE indexOf(matrix.c, clarityGrade)
        flatIndex == colorIndex * matrix.s[2] + clarityIndex
    IN  IF caratKey \notin DOMAIN matrix.l
        THEN [ok |-> FALSE, value |-> 0, error |-> "No data for carat band"]
        ELSE IF flatIndex >= Len(matrix.l[caratKey])
        THEN [ok |-> FALSE, value |-> 0, error |-> "Index out of bounds"]
        ELSE [ok |-> TRUE, value |-> matrix.l[caratKey][flatIndex + 1], error |-> ""]

\* the value getLogPrice returns, or the error it throws
getLogPrice(matrix, caratBand, colorGrade, clarityGrade) ==
    LET caratKey == toFixed1(caratBand)
        colorIndex == indexOf(matrix.r, colorGrade)
        clarityIndex == indexOf(matrix.c, clarityGrade)
        numCols == matrix.s[2]
        flatIndex == colorIndex * numCols + clarityIndex
    IN  IF caratKey \notin DOMAIN matrix.l
        THEN [ok |-> FALSE, value |-> 0, error |-> "No data for carat band"]
        ELSE IF colorIndex = -1
        THEN [ok |-> FALSE, value |-> 0, error |-> "Color grade not found in matrix"]
        ELSE IF clarityIndex = -1
        THEN [ok |-> FALSE, value |-> 0, error |-> "Clarity grade not found in matrix"]
        ELSE IF flatIndex >= Len(matrix.l[caratKey])
        THEN [ok |-> FALSE, value |-> 0, error |-> "Index out of bounds"]
        ELSE [ok |-> TRUE, value |-> matrix.l[caratKey][flatIndex + 1], error |-> ""]

\* lambda = (c - c1) / (c2 - c1), log = (1 - lambda) log1 + lambda log2
\* mutant: the two log-prices change places in the weighted sum
interpolateLogPriceSwapped(logPrice1, logPrice2, caratWeight, caratBand1, caratBand2) ==
    IF caratBand1 = caratBand2
    THEN [interpolatedLogPrice |-> [n |-> logPrice1, d |-> 1],
          lambda |-> [n |-> 0, d |-> 1]]
    ELSE LET num == caratWeight - caratBand1
             den == caratBand2 - caratBand1
         IN  [interpolatedLogPrice |->
                  [n |-> num * logPrice1 + (den - num) * logPrice2, d |-> den],
              lambda |-> [n |-> num, d |-> den]]

interpolateLogPrice(logPrice1, logPrice2, caratWeight, caratBand1, caratBand2) ==
    IF caratBand1 = caratBand2
    THEN [interpolatedLogPrice |-> [n |-> logPrice1, d |-> 1],
          lambda |-> [n |-> 0, d |-> 1]]
    ELSE LET num == caratWeight - caratBand1
             den == caratBand2 - caratBand1
         IN  [interpolatedLogPrice |->
                  [n |-> (den - num) * logPrice1 + num * logPrice2, d |-> den],
              lambda |-> [n |-> num, d |-> den]]

-----------------------------------------------------------------------------
(* Quote assembly: pricingService.ts.  Math.exp is tabulated to the whole  *)
(* dollar on the log-prices 7.000, 7.025, ... 11.000, which are the ones   *)
(* the grids below can produce; a total price is a number of cents, that   *)
(* is an exact product of a whole-dollar per-carat price and a weight in   *)
(* hundredths of a carat.                                                   *)

DEFAULT_CLARITY == "VS2"

toLowerCase(str) ==
    [i \in 1..Len(str) |-> IF str[i] \in 65..90 THEN str[i] + 32 ELSE str[i]]

S_round == <<114, 111, 117, 110, 100>>
S_brilliant == <<98, 114, 105, 108, 108, 105, 97, 110, 116>>

\* mutant: the shape is compared as written, without toLowerCase
mapShapeToPricingCategoryCaseSensitive(shape) ==
    IF shape = S_round \/ shape = S_brilliant THEN "round" ELSE "fancy"

mapShapeToPricingCategory(shape) ==
    LET shapeLower == toLowerCase(shape)
    IN  IF shapeLower = S_round \/ shapeLower = S_brilliant THEN "round" ELSE "fancy"

\* Math.exp to the whole dollar, entry i for the log-price 7 + (i - 1) / 40
ExpTable ==
    <<
       1097, 1124, 1153, 1182, 1212, 1243, 1274, 1306,
       1339, 1373, 1408, 1444, 1480, 1518, 1556, 1596,
       1636, 1677, 1720, 1763, 1808, 1854, 1901, 1949,
       1998, 2049, 2101, 2154, 2208, 2264, 2322, 2380,
       2441, 2502, 2566, 2631, 2697, 2766, 2836, 2907,
       2981, 3056, 3134, 3213, 3294, 3378, 3463, 3551,
       3641, 3733, 3828, 3925, 4024, 4126, 4230, 4337,
       4447, 4560, 4675, 4793, 4915, 5039, 5167, 5298,
       5432, 5569, 5710, 5855, 6003, 6155, 6311, 6470,
       6634, 6802, 6974, 7151, 7332, 7518, 7708, 7903,
       8103, 8308, 8519, 8734, 8955, 9182, 9414, 9653,
       9897, 10148, 10405, 10668, 10938, 11215, 11499, 11790,
       12088, 12394, 12708, 13030, 13360, 13698, 14045, 14400,
       14765, 15139, 15522, 15915, 16318, 16731, 17154, 17588,
       18034, 18490, 18958, 19438, 19930, 20435, 20952, 21483,
       22026, 22584, 23156, 23742, 24343, 24959, 25591, 26239,
       26903, 27584, 28283, 28999, 29733, 30485, 31257, 32048,
       32860, 33691, 34544, 35419, 36316, 37235, 38177, 39144,
       40135, 41151, 42193, 43261, 44356, 45479, 46630, 47810,
       49021, 50262, 51534, 52839, 54176, 55548, 56954, 58396,
       59874
    >>

\* Math.exp of the log-price x.n / x.d thousandths: the entries of ExpTable
\* start at 7000 thousandths and are 25 thousandths apart
exp(x) == ExpTable[(x.n - 7000 * x.d) \div (25 * x.d) + 1]

\* Math.round(a * k / m) for a >= 0, computed without leaving 32 bits
roundMulDiv(a, k, m) ==
    (a \div m) * k + (2 * (a % m) * k + m) \div (2 * m)

\* mutant: the spread is subtracted for the upper bound as for the lower one
calculatePriceRangeSameSign(totalPrice, confidence) ==
    LET spread == 50 + (100 - confidence)
    IN  [min |-> roundMulDiv(totalPrice, 1000 - spread, 100000),
         max |-> roundMulDiv(totalPrice, 1000 - spread, 100000)]

\* totalPrice in cents; spread in thousandths: 0.05 + ((100 - c) / 100) * 0.10
calculatePriceRange(totalPrice, confidence) ==
    LET spread == 50 + (100 - confidence)
    IN  [min |-> roundMulDiv(totalPrice, 1000 - spread, 100000),
         max |-> roundMulDiv(totalPrice, 1000 + spread, 100000)]

\* Math.max(a, b)
max(a, b) == IF a >= b THEN a ELSE b

\* mutant: the low-depth penalty is added, not subtracted
calculateConfidenceDepthBonus(hasExactCaratBand, marketDepth, dataAgeHours) ==
    LET afterBand == IF ~hasExactCaratBand THEN 100 - 10 ELSE 100
        afterDepth == IF marketDepth < 50 THEN afterBand + 15
                      ELSE IF marketDepth < 200 THEN afterBand - 5
                      ELSE afterBand
        afterAge == IF dataAgeHours > 12 THEN afterDepth - 10
                    ELSE IF dataAgeHours > 6 THEN afterDepth - 5
                    ELSE afterDepth
    IN  IF afterAge >= 50 THEN afterAge ELSE 50

\* mutant: a depth below 50 costs 20 points
calculateConfidenceHarshDepth(hasExactCaratBand, marketDepth, dataAgeHours) ==
    LET afterBand == IF ~hasExactCaratBand THEN 100 - 10 ELSE 100
        afterDepth == IF marketDepth < 50 THEN afterBand - 20
                      ELSE IF marketDepth < 200 THEN afterBand - 5
                      ELSE afterBand
        afterAge == IF dataAgeHours > 12 THEN afterDepth - 10
                    ELSE IF dataAgeHours > 6 THEN afterDepth - 5
                    ELSE afterDepth
    IN  max(afterAge, 50)

\* mutant: the age thresholds are reached at 6 and 12 hours, not after them
calculateConfidenceAgeInclusive(hasExactCaratBand, marketDepth, dataAgeHours) ==
    LET afterBand == IF ~hasExactCaratBand THEN 100 - 10 ELSE 100
        afterDepth == IF marketDepth < 50 THEN afterBand - 15
                      ELSE IF marketDepth < 200 THEN afterBand - 5
                      ELSE afterBand
        afterAge == IF dataAgeHours >= 12 THEN afterDepth - 10
                    ELSE IF dataAgeHours >= 6 THEN afterDepth - 5
                    ELSE afterDepth
    IN  max(afterAge, 50)

calculateConfidence(hasExactCaratBand, marketDepth, dataAgeHours) ==
    LET afterBand == IF ~hasExactCaratBand THEN 100 - 10 ELSE 100
        afterDepth == IF marketDepth < 50 THEN afterBand - 15
                      ELSE IF marketDepth < 200 THEN afterBand - 5
                      ELSE afterBand
        afterAge == IF dataAgeHours > 12 THEN afterDepth - 10
                    ELSE IF dataAgeHours > 6 THEN afterDepth - 5
                    ELSE afterDepth
    IN  max(afterAge, 50)

getConfidenceLevel(confidence) ==
    IF confidence >= 80 THEN "high"
    ELSE IF confidence >= 65 THEN "medium"
    ELSE "low"

\* table?.[k1]?.[k2], with undefined read as 0 (both are falsy)
lookup2(table, k1, k2) ==
    IF k1 \in DOMAIN table
    THEN IF k2 \in DOMAIN table[k1] THEN table[k1][k2] ELSE 0
    ELSE 0

\* mutant: the three tables are tried in the opposite order
getMarketDepthColorFirst(depthData, caratWeight, colorGrade, clarityGrade) ==
    LET caratKey == numberToString(caratWeight)
        colorClarityDepth == lookup2(depthData.colclar, colorGrade, clarityGrade)
        clarityDepth == lookup2(depthData.clarity, caratKey, clarityGrade)
        colorDepth == lookup2(depthData.color, caratKey, colorGrade)
    IN  IF colorDepth # 0 THEN colorDepth
        ELSE IF clarityDepth # 0 THEN clarityDepth
        ELSE IF colorClarityDepth # 0 THEN colorClarityDepth
        ELSE 0

getMarketDepth(depthData, caratWeight, colorGrade, clarityGrade) ==
    LET caratKey == numberToString(caratWeight)
        colorClarityDepth == lookup2(depthData.colclar, colorGrade, clarityGrade)
        clarityDepth == lookup2(depthData.clarity, caratKey, clarityGrade)
        colorDepth == lookup2(depthData.color, caratKey, colorGrade)
    IN  IF colorClarityDepth # 0 THEN colorClarityDepth
        ELSE IF clarityDepth # 0 THEN clarityDepth
        ELSE IF colorDepth # 0 THEN colorDepth
        ELSE 0

\* Math.floor((Date.now() - new Date(matrixData.ts).getTime()) / (1000 * 60 * 60))
dataAgeHoursOf(matrixData, t) == (t - matrixData.ts) \div TicksPerHour

Rejected(cause) ==
    [ok |-> FALSE, message |-> <<"Failed to calculate price: ", cause>>]

\* The body of calculateDiamondPrice once the three datasets are there (lines
\* 321-423), at time t: the quote it returns or the error it throws.  An
\* absent clarityGrade is "".
computeQuote(matrixData, indexData, depthData, caratWeight, colorGrade, shape, clarityGrade, t) ==
    LET normalizedColor == normalizeColorGrade(colorGrade, matrixData.r)
        usedClarity == IF clarityGrade = "" THEN DEFAULT_CLARITY ELSE clarityGrade
        shapeCategory == mapShapeToPricingCategory(shape)
        availableBands == availableBandsOf(matrixData)
        found == findCaratBands(caratWeight, availableBands)
        caratBand1 == found.band1
        caratBand2 == found.band2
        hasExactMatch == caratBand1 = caratBand2
        logPrice1 == getLogPrice(matrixData, caratBand1, normalizedColor, usedClarity)
        logPrice2 == getLogPrice(matrixData, caratBand2, normalizedColor, usedClarity)
        interpolated == interpolateLogPrice(logPrice1.value, logPrice2.value,
                                            caratWeight, caratBand1, caratBand2)
        perCaratPrice == exp(interpolated.interpolatedLogPrice)
        totalPrice == perCaratPrice * caratWeight
        marketDepth == getMarketDepth(depthData, caratWeight, normalizedColor, usedClarity)
        dataAgeHours == dataAgeHoursOf(matrixData, t)
        confidence == calculateConfidence(hasExactMatch, marketDepth, dataAgeHours)
        priceRange == calculatePriceRange(totalPrice, confidence)
    IN  IF found.kind = "throw" THEN Rejected("Unable to find carat bands")
        ELSE IF ~logPrice1.ok THEN Rejected(logPrice1.error)
        ELSE IF ~logPrice2.ok THEN Rejected(logPrice2.error)
        ELSE [ok |-> TRUE,
              perCaratPrice |-> perCaratPrice,
              totalPrice |-> (totalPrice + 50) \div 100,
              priceRange |-> priceRange,
              dcxIndex |-> indexData.dcx,
              trend24h |-> indexData.trend,
              confidence |-> confidence,
              marketDepth |-> IF marketDepth > 0 THEN marketDepth ELSE Undefined,
              timestamp |-> t,
              details |-> [caratBand1 |-> caratBand1,
                           caratBand2 |-> caratBand2,
                           interpolationFactor |-> interpolated.lambda,
                           logPrice |-> interpolated.interpolatedLogPrice,
                           hasExactMatch |-> hasExactMatch,
                           clarityUsed |-> usedClarity,
                           colorUsed |-> normalizedColor,
                           shapeUsed |-> shapeCategory]]

\* what the console.log calls of lines 349-369 show: the bands, the two grid
\* log-prices and the interpolation, as far as the function gets
consoleLog(matrixData, caratWeight, colorGrade, clarityGrade) ==
    LET normalizedColor == normalizeColorGrade(colorGrade, matrixData.r)
        usedClarity == IF clarityGrade = "" THEN DEFAULT_CLARITY ELSE clarityGrade
        found == findCaratBands(caratWeight, availableBandsOf(matrixData))
        logPrice1 == getLogPrice(matrixData, found.band1, normalizedColor, usedClarity)
        logPrice2 == getLogPrice(matrixData, found.band2, normalizedColor, usedClarity)
    IN  IF found.kind = "throw" THEN [reached |-> "none"]
        ELSE IF ~(logPrice1.ok /\ logPrice2.ok)
        THEN [reached |-> "bands", bands |-> <<found.band1, found.band2>>]
        ELSE [reached |-> "interpolation",
              bands |-> <<found.band1, found.band2>>,
              logPrice1 |-> logPrice1.value,
              logPrice2 |-> logPrice2.value,
              interpolation |-> interpolateLogPrice(logPrice1.value, logPrice2.value,
                                    caratWeight, found.band1, found.band2)]

-----------------------------------------------------------------------------
(* The pricing pipeline on sample datasets: every weight of a quarter-carat *)
(* ladder, colors in and out of the grid, clarities in and out of the grid, *)
(* every depth regime and every staleness regime.                          *)

\* the weights priced are 0.25, 0.50, ... MaxWeightSteps quarters of a carat
MaxWeightSteps == 8

CLARITY_COLS == <<"VS1", "VS2", "SI1">>

\* a grid of 10 rows by 3 columns: log-prices fall with color and clarity
gridOf(base) ==
    [k \in 1..(Len(ROWS_D_M) * Len(CLARITY_COLS)) |->
        base - 100 * (((k - 1) \div Len(CLARITY_COLS)) \div 4)
             - 100 * ((k - 1) % Len(CLARITY_COLS))]

Key(i, f) == [int |-> i, frac |-> <<f>>]

\* bands 0.5, 1.0, 1.5 with log-prices 8.6, 9.0, 9.4 at D/VS1
MatrixThreeBands ==
    [l |-> (Key(0, 5) :> gridOf(8600)) @@ (Key(1, 0) :> gridOf(9000))
             @@ (Key(1, 5) :> gridOf(9400)),
     c |-> CLARITY_COLS, r |-> ROWS_D_M,
     s |-> <<Len(ROWS_D_M), Len(CLARITY_COLS)>>, ts |-> 0]

\* bands 0.5 and 1.5 only
MatrixTwoBands ==
    [l |-> (Key(0, 5) :> gridOf(8600)) @@ (Key(1, 5) :> gridOf(9400)),
     c |-> CLARITY_COLS, r |-> ROWS_D_M,
     s |-> <<Len(ROWS_D_M), Len(CLARITY_COLS)>>, ts |-> 0]

\* the band 1.0 only
MatrixOneBand ==
    [l |-> (Key(1, 0) :> gridOf(9000)),
     c |-> CLARITY_COLS, r |-> ROWS_D_M,
     s |-> <<Len(ROWS_D_M), Len(CLARITY_COLS)>>, ts |-> 0]

\* no band at all: l is {}
MatrixNoBands ==
    [l |-> <<>>,
     c |-> CLARITY_COLS, r |-> ROWS_D_M,
     s |-> <<Len(ROWS_D_M), Len(CLARITY_COLS)>>, ts |-> 0]

Matrices == {MatrixThreeBands, MatrixTwoBands, MatrixOneBand, MatrixNoBands}

IndexSample == [dcx |-> 5120, trend |-> 13]

\* the same count for every color and clarity of the grid
colclarOf(n) ==
    [col \in {ROWS_D_M[i] : i \in 1..Len(ROWS_D_M)} |->
        [cl \in {CLARITY_COLS[j] : j \in 1..Len(CLARITY_COLS)} |-> n]]

NoTable == <<>>

DepthEmpty == [colclar |-> NoTable, clarity |-> NoTable, color |-> NoTable]

DepthOf(n) == [colclar |-> colclarOf(n), clarity |-> NoTable, color |-> NoTable]

\* no color x clarity table: listings by clarity at "1", by color at "1.25"
DepthByCarat ==
    [colclar |-> NoTable,
     clarity |-> ([int |-> 1, frac |-> <<>>] :> ("VS2" :> 120)),
     color |-> ([int |-> 1, frac |-> <<2, 5>>] :> (S_D :> 250))]

\* the three tables at once: D / VS1 by color and clarity, VS1 and VS2 by
\* clarity at "1", D and H by color at "1"
DepthThreeTables ==
    [colclar |-> (S_D :> ("VS1" :> 30)),
     clarity |-> ([int |-> 1, frac |-> <<>>] :> (("VS1" :> 120) @@ ("VS2" :> 120))),
     color |-> ([int |-> 1, frac |-> <<>>] :> ((S_D :> 250) @@ (S_H :> 250)))]

Depths ==
    {DepthEmpty, DepthOf(30), DepthOf(120), DepthOf(250), DepthByCarat,
     DepthThreeTables}

S_Round == <<82, 111, 117, 110, 100>>
S_oval == <<111, 118, 97, 108>>
S_BRILLIANT == <<66, 82, 73, 76, 76, 73, 65, 78, 84>>

\* hundredths of a carat
Weights == {25 * k : k \in 1..MaxWeightSteps}

PricingColors == {S_D, S_H, S_Z, S_Faint, S_faint, S_Colorless}

PricingClarities == {"", "VS1", "SI1", "I3"}

PricingShapes == {S_round, S_Round, S_BRILLIANT, S_oval}

\* Date.now() at the call, in ticks after the matrix timestamp: 0 h, 6 h 30,
\* 7 h, 12 h 30 and 13 h
PricingTimes == {0, 13, 14, 25, 26}

InitPricing ==
    /\ now = 0
    /\ storage = [d \in Datasets |-> NoEntry]
    /\ calls = EmptyBag
    /\ ev = [op |-> "init"]
    /\ pin \in [matrixData : Matrices, indexData : {IndexSample}, depthData : Depths,
                caratWeight : Weights, colorGrade : PricingColors,
                shape : PricingShapes, clarityGrade : PricingClarities,
                t : PricingTimes]
    /\ pout = NotRun

\* calculateDiamondPrice with the three datasets of pin, at time pin.t
Price ==
    /\ pout = NotRun
    /\ pout' = [done |-> TRUE,
                quote |-> computeQuote(pin.matrixData, pin.indexData, pin.depthData,
                                       pin.caratWeight, pin.colorGrade, pin.shape,
                                       pin.clarityGrade, pin.t),
                log |-> consoleLog(pin.matrixData, pin.caratWeight, pin.colorGrade,
                                   pin.clarityGrade)]
    /\ UNCHANGED <<now, storage, calls, ev, pin>>

NextPricing == Price

SpecPricing == InitPricing /\ [][NextPricing]_vars

-----------------------------------------------------------------------------
(* Claims about the pricing pipeline, checked under SpecPricing *)

\* the total price before rounding, in cents
UnroundedTotal == pout.quote.perCaratPrice * pin.caratWeight

\* C5: the confidence of every quote is at least 50 and at most 100, and so
\* is the value of calculateConfidence on either side of each threshold.
C5_ConfidenceBounds ==
    /\ (pout.done /\ pout.quote.ok) =>
          pout.quote.confidence >= 50 /\ pout.quote.confidence <= 100
    /\ \A exact \in BOOLEAN, depth \in {0 - 1, 0, 49, 50, 199, 200},
          age \in {0 - 1, 0, 6, 7, 12, 13} :
          /\ calculateConfidence(exact, depth, age) >= 50
          /\ calculateConfidence(exact, depth, age) <= 100

\* a quote with every penalty applied: interpolated, no depth, stale
C5_Witness ==
    /\ pout.done /\ pout.quote.ok
    /\ ~(pout.log.bands[1] = pout.log.bands[2])
    /\ pout.quote.marketDepth = Undefined
    /\ dataAgeHoursOf(pin.matrixData, pin.t) > 12
    /\ pout.quote.confidence = 65

WeightIsBand == \E k \in DOMAIN pin.matrixData.l : parseFloat(k) = pin.caratWeight

\* the color and the clarity priced are found in the grid
GradesInGrid ==
    /\ indexOf(pin.matrixData.r,
               normalizeColorGrade(pin.colorGrade, pin.matrixData.r)) # -1
    /\ indexOf(pin.matrixData.c,
               IF pin.clarityGrade = "" THEN DEFAULT_CLARITY
               ELSE pin.clarityGrade) # -1

\* C10: when the weight is one of the bands, findCaratBands returns that band
\* twice; then, the grades being in the grid, lambda is 0, the interpolated
\* log-price is the grid log-price of that band, and the confidence carries
\* no interpolation penalty: it is 100 less the depth and the age penalty.
C10_ExactBand ==
    (pout.done /\ WeightIsBand) =>
        /\ pout.log.reached # "none"
        /\ pout.log.bands = <<pin.caratWeight, pin.caratWeight>>
        /\ GradesInGrid =>
              /\ pout.quote.ok
              /\ pout.log.reached = "interpolation"
              /\ pout.log.interpolation.lambda.n = 0
              /\ pout.quote.details.interpolationFactor.n = 0
              /\ pout.log.interpolation.interpolatedLogPrice.n
                    = pout.log.logPrice1 * pout.log.interpolation.interpolatedLogPrice.d
              /\ pout.log.logPrice1 =
                    pin.matrixData.l[toFixed1(pin.caratWeight)][
                        indexOf(pin.matrixData.r, pout.quote.details.colorUsed)
                            * Len(pin.matrixData.c)
                          + indexOf(pin.matrixData.c, pout.quote.details.clarityUsed)
                          + 1]
              /\ pout.quote.confidence =
                    100
                      - (IF pout.quote.marketDepth = Undefined
                            \/ pout.quote.marketDepth < 50 THEN 15
                         ELSE IF pout.quote.marketDepth < 200 THEN 5 ELSE 0)
                      - (IF dataAgeHoursOf(pin.matrixData, pin.t) > 12 THEN 10
                         ELSE IF dataAgeHoursOf(pin.matrixData, pin.t) > 6 THEN 5
                         ELSE 0)

\* the middle band of three, priced with full confidence
C10_Witness ==
    /\ pout.done /\ WeightIsBand /\ GradesInGrid
    /\ pin.matrixData = MatrixThreeBands
    /\ pin.caratWeight = 100
    /\ pout.quote.ok
    /\ pout.quote.confidence = 100

\* the carat bands of the matrix priced, ascending
BandsPriced == availableBandsOf(pin.matrixData)

WeightBelowBands ==
    Len(BandsPriced) >= 1 /\ pin.caratWeight < BandsPriced[1]

WeightAboveBands ==
    Len(BandsPriced) >= 1 /\ pin.caratWeight > BandsPriced[Len(BandsPriced)]

\* C11: for a grid with at least one band and a weight below the lowest or
\* above the highest band, findCaratBands returns the two lowest (the two
\* highest) bands of the grid, and with the grades in the grid the call
\* returns a quote.
C11_Extrapolates ==
    (pout.done /\ (WeightBelowBands \/ WeightAboveBands)) =>
        /\ pout.log.reached # "none"
        /\ \A i \in {1, 2} :
              \E j \in 1..Len(BandsPriced) : pout.log.bands[i] = BandsPriced[j]
        /\ pout.log.bands[1] < pout.log.bands[2]
        /\ WeightBelowBands =>
              \A j \in 1..Len(BandsPriced) :
                  BandsPriced[j] < pout.log.bands[2] =>
                      BandsPriced[j] = pout.log.bands[1]
        /\ WeightAboveBands =>
              \A j \in 1..Len(BandsPriced) :
                  BandsPriced[j] > pout.log.bands[1] =>
                      BandsPriced[j] = pout.log.bands[2]
        /\ GradesInGrid => pout.quote.ok

\* C12: when the resolved color or the resolved clarity is not a label of
\* the matrix, or the matrix has no carat band, the call is rejected with a
\* "Failed to calculate price: " error and gives no quote.
C12_MissingGridRejects ==
    (pout.done /\ (~GradesInGrid \/ Len(BandsPriced) = 0)) =>
        /\ ~pout.quote.ok
        /\ pout.quote.message[1] = "Failed to calculate price: "

\* an exact band priced with a color the normaliser leaves outside the grid
C12_Witness ==
    /\ pout.done /\ WeightIsBand
    /\ pin.colorGrade = S_faint
    /\ indexOf(pin.matrixData.c, pin.clarityGrade) # -1
    /\ ~pout.quote.ok
    /\ pout.quote.message[2] = "Color grade not found in matrix"

\* two strings of code units that differ at most in the case of Latin letters
SameIgnoringCase(a, b) ==
    /\ Len(a) = Len(b)
    /\ \A i \in 1..Len(a) :
          \/ a[i] = b[i]
          \/ a[i] \in 65..90 /\ b[i] = a[i] + 32
          \/ b[i] \in 65..90 /\ a[i] = b[i] + 32

\* the same request with the shape 'oval'
WithShapeOval ==
    computeQuote(pin.matrixData, pin.indexData, pin.depthData, pin.caratWeight,
                 pin.colorGrade, S_oval, pin.clarityGrade, pin.t)

\* C19: the shape decides nothing but _details.shapeUsed, which is 'round'
\* when the shape is 'round' or 'brilliant' in any case and 'fancy'
\* otherwise: the request with the shape replaced by 'oval' is rejected
\* with the same error or gives the same per-carat price, total, range,
\* confidence and depth, and every other field but shapeUsed.
C19_ShapeOnlyLabels ==
    pout.done =>
        /\ pout.quote.ok = WithShapeOval.ok
        /\ ~pout.quote.ok => pout.quote = WithShapeOval
        /\ pout.quote.ok =>
              /\ pout.quote.perCaratPrice = WithShapeOval.perCaratPrice
              /\ pout.quote.totalPrice = WithShapeOval.totalPrice
              /\ pout.quote.priceRange = WithShapeOval.priceRange
              /\ pout.quote.confidence = WithShapeOval.confidence
              /\ pout.quote.marketDepth = WithShapeOval.marketDepth
              /\ [pout.quote EXCEPT !.details.shapeUsed = "fancy"] = WithShapeOval
              /\ pout.quote.details.shapeUsed =
                    IF \/ SameIgnoringCase(pin.shape, S_round)
                       \/ SameIgnoringCase(pin.shape, S_brilliant)
                    THEN "round" ELSE "fancy"

\* 'BRILLIANT' priced as a round stone, with listings counted
C19_Witness ==
    /\ pout.done /\ pout.quote.ok
    /\ pin.shape = S_BRILLIANT
    /\ pout.quote.details.shapeUsed = "round"
    /\ pout.quote.marketDepth > 0

\* the weight is no band and lies strictly between the lowest and the
\* highest band of a grid with at least two bands
WeightInsideBands ==
    /\ Len(BandsPriced) >= 2
    /\ ~WeightIsBand
    /\ BandsPriced[1] < pin.caratWeight
    /\ pin.caratWeight < BandsPriced[Len(BandsPriced)]

\* the bracketing part of C20, in exact arithmetic: findCaratBands returns
\* two bands of the grid around the weight with no band between them, and
\* the fraction (weight - b1) / (b2 - b1) is below 0 or above 1 exactly
\* when the weight is below the lowest or above the highest band
BracketIsAdjacent ==
    pout.done =>
        /\ WeightInsideBands =>
              /\ pout.log.reached # "none"
              /\ pout.log.bands[1] < pin.caratWeight
              /\ pin.caratWeight < pout.log.bands[2]
              /\ \A i \in {1, 2} :
                    \E j \in 1..Len(BandsPriced) : pout.log.bands[i] = BandsPriced[j]
              /\ \A j \in 1..Len(BandsPriced) :
                    ~(/\ pout.log.bands[1] < BandsPriced[j]
                      /\ BandsPriced[j] < pout.log.bands[2])
        /\ pout.log.reached = "interpolation" =>
              LET lambda == pout.log.interpolation.lambda
              IN  (lambda.n < 0 \/ lambda.n > lambda.d)
                     <=> (WeightBelowBands \/ WeightAboveBands)

\* the grid value of a band for the resolved grades: the entry of the band's
\* array at row of the color times the number of columns plus column of the
\* clarity
GridValue(band) ==
    LET key == CHOOSE k \in DOMAIN pin.matrixData.l : parseFloat(k) = band
        row == indexOf(pin.matrixData.r,
                       normalizeColorGrade(pin.colorGrade, pin.matrixData.r))
        col == indexOf(pin.matrixData.c,
                       IF pin.clarityGrade = "" THEN DEFAULT_CLARITY
                       ELSE pin.clarityGrade)
    IN  pin.matrixData.l[key][row * Len(pin.matrixData.c) + col + 1]

\* C21: for two distinct bands, lambda is (weight - band1) / (band2 - band1)
\* and the interpolated log-price is (1 - lambda) * log1 + lambda * log2,
\* log1 and log2 being the grid values of the two bands at the flat index of
\* the grades; bands 1.0 and 1.5 with 9.0 and 9.4 and the weight 1.25 give
\* lambda = 0.5 and the log-price 9.2.
C21_LinearInLogSpace ==
    (/\ pout.done
     /\ pout.log.reached = "interpolation"
     /\ pout.log.bands[1] # pout.log.bands[2]) =>
        LET band1 == pout.log.bands[1]
            band2 == pout.log.bands[2]
            lambda == pout.log.interpolation.lambda
            interpolated == pout.log.interpolation.interpolatedLogPrice
        IN  /\ pout.log.logPrice1 = GridValue(band1)
            /\ pout.log.logPrice2 = GridValue(band2)
            /\ lambda.d > 0 /\ interpolated.d > 0
            /\ lambda.n * (band2 - band1) = (pin.caratWeight - band1) * lambda.d
            /\ interpolated.n * lambda.d =
                  interpolated.d * ((lambda.d - lambda.n) * GridValue(band1)
                                      + lambda.n * GridValue(band2))
            /\ (/\ band1 = 100 /\ band2 = 150 /\ pin.caratWeight = 125
                /\ GridValue(band1) = 9000 /\ GridValue(band2) = 9400) =>
                  /\ 2 * lambda.n = lambda.d
                  /\ interpolated.n = 9200 * interpolated.d

\* the scenario: 1.25 ct of D / VS1 between the bands 1.0 and 1.5, priced
\* at e^9.2 to the dollar
C21_Witness ==
    /\ pout.done /\ pout.quote.ok
    /\ pin.matrixData = MatrixThreeBands
    /\ pin.caratWeight = 125
    /\ pin.colorGrade = S_D /\ pin.clarityGrade = "VS1"
    /\ pout.log.bands = <<100, 150>>
    /\ pout.log.logPrice1 = 9000 /\ pout.log.logPrice2 = 9400
    /\ pout.quote.details.interpolationFactor = [n |-> 25, d |-> 50]
    /\ pout.quote.perCaratPrice = 9897

\* the three penalties: 10 for a weight that is no band; 15 for a depth
\* below 50 and 5 for one from 50 and below 200; 10 for an age above 12
\* hours and 5 for one above 6 and up to 12
PenaltyBand(exact) == IF exact THEN 0 ELSE 10

PenaltyDepth(depth) ==
    IF depth < 50 THEN 15 ELSE IF depth >= 50 /\ depth < 200 THEN 5 ELSE 0

PenaltyAge(hours) ==
    IF hours > 12 THEN 10 ELSE IF hours > 6 /\ hours <= 12 THEN 5 ELSE 0

Expected(exact, depth, hours) ==
    LET left == 100 - PenaltyBand(exact) - PenaltyDepth(depth) - PenaltyAge(hours)
    IN  IF left < 50 THEN 50 ELSE left

\* the count a table holds under two keys: 0 for a missing table, a missing
\* outer key or a missing inner key
CountIn(table, outer, inner) ==
    IF table = NoTable \/ outer \notin DOMAIN table THEN 0
    ELSE IF inner \notin DOMAIN table[outer] THEN 0
    ELSE table[outer][inner]

\* the counts of the resolved grades in the order colclar[color][clarity],
\* clarity[String(weight)][clarity], color[String(weight)][color]
CountsInOrder ==
    LET color == pout.quote.details.colorUsed
        clarity == pout.quote.details.clarityUsed
        caratKey == numberToString(pin.caratWeight)
    IN  <<CountIn(pin.depthData.colclar, color, clarity),
          CountIn(pin.depthData.clarity, caratKey, clarity),
          CountIn(pin.depthData.color, caratKey, color)>>

FirstAvailable(counts) ==
    IF \A i \in 1..Len(counts) : counts[i] = 0 THEN 0
    ELSE counts[CHOOSE i \in 1..Len(counts) :
                   counts[i] # 0 /\ \A j \in 1..(i - 1) : counts[j] = 0]

PenaltyRealAge(ticks) ==
    IF ticks > 12 * TicksPerHour THEN 10
    ELSE IF ticks > 6 * TicksPerHour THEN 5
    ELSE 0

\* C23: the staleness penalty of a quote follows the real age of the matrix
\* at the call: 10 points above 12 hours (12 h 30 for one), 5 points above 6
\* and up to 12 hours (6 h 30 for one), none below 6 hours.
C23_PenaltyFollowsRealAge ==
    (pout.done /\ pout.quote.ok) =>
        pout.quote.confidence =
            100 - PenaltyBand(pout.quote.details.hasExactMatch)
                - PenaltyDepth(IF pout.quote.marketDepth = Undefined THEN 0
                               ELSE pout.quote.marketDepth)
                - PenaltyRealAge(pin.t - pin.matrixData.ts)

\* C27: the confidence of a quote is one of 65, 70, ... 100: it is 100
\* less the three penalties, which sum to at most 35, so that the floor of
\* 50 does not bind; the price range is within 8.5 % of the total; and
\* getConfidenceLevel of the confidence is never 'low'.
C27_ConfidenceLevels ==
    (pout.done /\ pout.quote.ok) =>
        LET penalties ==
                PenaltyBand(pout.quote.details.hasExactMatch)
                  + PenaltyDepth(IF pout.quote.marketDepth = Undefined THEN 0
                                 ELSE pout.quote.marketDepth)
                  + PenaltyAge(dataAgeHoursOf(pin.matrixData, pin.t))
        IN  /\ pout.quote.confidence \in {65 + 5 * k : k \in 0..7}
            /\ penalties <= 35
            /\ pout.quote.confidence = 100 - penalties
            /\ pout.quote.priceRange.max <= roundMulDiv(UnroundedTotal, 1085, 100000)
            /\ pout.quote.priceRange.min >= roundMulDiv(UnroundedTotal, 915, 100000)
            /\ getConfidenceLevel(pout.quote.confidence) # "low"

\* the lowest confidence there is: the range is the total less and plus 8.5 %
C27_Witness ==
    /\ pout.done /\ pout.quote.ok
    /\ pout.quote.confidence = 65
    /\ getConfidenceLevel(pout.quote.confidence) = "medium"
    /\ pout.quote.priceRange.max = roundMulDiv(UnroundedTotal, 1085, 100000)
    /\ pout.quote.priceRange.min = roundMulDiv(UnroundedTotal, 915, 100000)

\* a key written with exactly one decimal digit
OneDecimal(key) == Len(key.frac) = 1

\* C30: a band key with one decimal digit, parsed and formatted back with
\* one decimal, is the same key; so for a grid of at least two bands with
\* such keys getLogPrice finds the array of every band findCaratBands
\* returns and the call does not fail with 'No data for carat band'.
C30_BandKeyRoundTrip ==
    /\ \A i \in {0, 2, 10}, f \in {0, 9} :
          toFixed1(parseFloat(Key(i, f))) = Key(i, f)
    /\ \A k \in DOMAIN pin.matrixData.l :
          OneDecimal(k) => toFixed1(parseFloat(k)) = k
    /\ (/\ pout.done
        /\ Len(BandsPriced) >= 2
        /\ \A k \in DOMAIN pin.matrixData.l : OneDecimal(k)) =>
          /\ pout.log.reached # "none"
          /\ \A i \in {1, 2} :
                /\ toFixed1(pout.log.bands[i]) \in DOMAIN pin.matrixData.l
                /\ parseFloat(toFixed1(pout.log.bands[i])) = pout.log.bands[i]
          /\ ~pout.quote.ok => pout.quote.message[2] # "No data for carat band"

\* 1.25 ct between the bands 1.0 and 1.5: the band 1 is looked up as "1.0"
C30_Witness ==
    /\ pout.done /\ pout.quote.ok
    /\ pin.matrixData = MatrixThreeBands
    /\ pin.caratWeight = 125
    /\ pout.log.bands = <<100, 150>>
    /\ toFixed1(pout.log.bands[1]) = Key(1, 0)
    /\ numberToString(pout.log.bands[1]) # Key(1, 0)

-----------------------------------------------------------------------------
(* calculateConfidence on its own: the arguments are drawn around the      *)
(* thresholds, the depth in listings and the age in whole hours             *)

ConfidenceDepths == {0 - 1, 0, 1, 30, 49, 50, 51, 120, 199, 200, 201, 250}

ConfidenceHours == {0 - 1} \cup 0..14 \cup {48}

InitConfidence ==
    /\ now = 0
    /\ storage = [d \in Datasets |-> NoEntry]
    /\ calls = EmptyBag
    /\ ev = [op |-> "init"]
    /\ pin \in [hasExactCaratBand : BOOLEAN, marketDepth : ConfidenceDepths,
                dataAgeHours : ConfidenceHours]
    /\ pout = NotRun

Confidence ==
    /\ pout = NotRun
    /\ pout' = [done |-> TRUE,
                confidence |-> calculateConfidence(pin.hasExactCaratBand,
                                                   pin.marketDepth,
                                                   pin.dataAgeHours)]
    /\ UNCHANGED <<now, storage, calls, ev, pin>>

NextConfidence == Confidence

SpecConfidence == InitConfidence /\ [][NextConfidence]_vars

\* C22: calculateConfidence is max(50, 100 - a - b - c), a, b and c being
\* the penalties for a weight that is no band, for the depth and for the
\* age.
C22_ConfidenceFormula ==
    pout.done =>
        pout.confidence =
            Expected(pin.hasExactCaratBand, pin.marketDepth, pin.dataAgeHours)

\* an exact band with 120 listings and data 7 hours old: 100 - 5 - 5
C22_Witness ==
    /\ pout.done
    /\ pin.hasExactCaratBand
    /\ pin.marketDepth = 120
    /\ pin.dataAgeHours = 7
    /\ pout.confidence = 90

-----------------------------------------------------------------------------
(* interpolateLogPrice in floating point.  A JavaScript number is a binary *)
(* float whose every operation rounds to the nearest representable value,  *)
(* ties to even.  The significand has FloatBits bits here (53 in the       *)
(* engine); a value is a whole number of units of 1 / FloatUnit, which is  *)
(* fine enough for every value the inputs below produce.                    *)

\* bits of significand
FloatBits == 5

\* units per 1.0
FloatUnit == 2^12

\* floor of the binary logarithm of q >= 1
ilog2(q) == CHOOSE k \in 0..29 : 2^k <= q /\ q < 2^(k + 1)

\* a / b rounded to the nearest integer, ties to the even one
roundHalfEven(a, b) ==
    LET q == a \div b
        r == a % b
    IN  IF 2 * r < b THEN q
        ELSE IF 2 * r > b THEN q + 1
        ELSE IF q % 2 = 0 THEN q ELSE q + 1

\* the float nearest to num / den units, for num / den >= 1 or num = 0
fl(num, den) ==
    IF num = 0 THEN 0
    ELSE LET e == ilog2(num \div den) - (FloatBits - 1)
         IN  IF e <= 0 THEN roundHalfEven(num, den)
             ELSE roundHalfEven(num, den * 2^e) * 2^e

\* a + b, a - b (a >= b), a * b and a / b of floats
fAdd(a, b) == fl(a + b, 1)

fSub(a, b) == fl(a - b, 1)

fMul(a, b) == fl(a * b, FloatUnit)

fDiv(a, b) == fl(a * FloatUnit, b)

\* lines 194-204, every operation rounded
interpolateLogPriceFloat(logPrice1, logPrice2, caratWeight, caratBand1, caratBand2) ==
    IF caratBand1 = caratBand2
    THEN [interpolatedLogPrice |-> logPrice1, lambda |-> 0]
    ELSE LET lambda == fDiv(fSub(caratWeight, caratBand1),
                            fSub(caratBand2, caratBand1))
         IN  [interpolatedLogPrice |->
                  fAdd(fMul(fSub(FloatUnit, lambda), logPrice1),
                       fMul(lambda, logPrice2)),
              lambda |-> lambda]

\* x units is a float
Representable(x) == fl(x, 1) = x

\* log-prices 8.0, 8.125, ... 10.0 that are floats
FloatLogs ==
    {x \in {8 * FloatUnit + i * (FloatUnit \div 8) : i \in 0..16} : Representable(x)}

\* bands 0.5, 1.0, 1.5, 2.0, and the float nearest to 0.3
FloatBands == {i * (FloatUnit \div 2) : i \in 1..4} \cup {fl(3 * FloatUnit, 10)}

\* weights 0.5, 0.5 + 1/64, ... 2.0 that are floats
FloatWeights ==
    {x \in {FloatUnit \div 2 + i * (FloatUnit \div 64) : i \in 0..96} : Representable(x)}

InitFloat ==
    /\ now = 0
    /\ storage = [d \in Datasets |-> NoEntry]
    /\ calls = EmptyBag
    /\ ev = [op |-> "init"]
    /\ pin \in {a \in [logPrice1 : FloatLogs, logPrice2 : FloatLogs,
                       caratBand1 : FloatBands, caratBand2 : FloatBands,
                       caratWeight : FloatWeights] :
                    /\ a.logPrice1 < a.logPrice2
                    /\ a.caratBand1 < a.caratWeight
                    /\ a.caratWeight < a.caratBand2}
    /\ pout = NotRun

\* interpolateLogPrice on two bands that bracket the weight
InterpolateFloat ==
    /\ pout = NotRun
    /\ pout' = [done |-> TRUE] @@
                  interpolateLogPriceFloat(pin.logPrice1, pin.logPrice2,
                                           pin.caratWeight, pin.caratBand1,
                                           pin.caratBand2)
    /\ UNCHANGED <<now, storage, calls, ev, pin>>

NextFloat == InterpolateFloat

SpecFloat == InitFloat /\ [][NextFloat]_vars

\* C13: for log1 < log2 and a weight strictly between the two bands, the
\* interpolated log-price is strictly between log1 and log2 (and with it the
\* per-carat price, its exponential, strictly between the two prices).
C13_StrictlyBetween ==
    pout.done =>
        /\ pin.logPrice1 < pout.interpolatedLogPrice
        /\ pout.interpolatedLogPrice < pin.logPrice2

\* C20: for two bands that bracket the weight, b1 < weight < b2, the
\* interpolation fraction lambda = (weight - b1) / (b2 - b1) satisfies
\* 0 < lambda < 1.
C20_LambdaStrictlyInside ==
    pout.done => (0 < pout.lambda /\ pout.lambda < FloatUnit)

-----------------------------------------------------------------------------
(* calculateDiamondPrice over the cache layer: Promise.all of the three    *)
(* getters, each called without forceRefresh, then the quote assembly.     *)
(* pin is the call in progress: its arguments, what each getter has given  *)
(* back so far, and whether the promise has settled; pout is what the      *)
(* caller gets.  A new call is made only when no getter of an earlier call *)
(* is still in flight.                                                      *)

\* the body a successful fetch of dataset ds delivers for payload number p
MatrixPayload(p) == IF p = 2 THEN MatrixTwoBands ELSE MatrixThreeBands

IndexPayload(p) == IndexSample

DepthPayload(p) == IF p = 2 THEN DepthEmpty ELSE DepthOf(250)

\* the payload numbers a fetch of ds can deliver
PayloadsOf(ds) == IF ds = "matrix" THEN Payloads ELSE {1}

QuoteArgs ==
    {[caratWeight |-> 100, colorGrade |-> S_D, shape |-> S_round, clarityGrade |-> ""],
     [caratWeight |-> 125, colorGrade |-> S_Faint, shape |-> S_oval, clarityGrade |-> "VS1"],
     [caratWeight |-> 100, colorGrade |-> S_faint, shape |-> S_round, clarityGrade |-> ""],
     [caratWeight |-> 125, colorGrade |-> S_D, shape |-> S_round, clarityGrade |-> "I3"]}

Pending == [st |-> "pending", data |-> 0, expired |-> FALSE]

\* mutant: Promise.allSettled, a rejected getter counts as done
promiseAllSettled(res) ==
    IF \E ds \in Datasets : res[ds].st = "pending" THEN "pending" ELSE "fulfilled"

\* mutant: the promise stays pending when a getter fulfilled from an entry
\* served after a failed fetch
promiseAllStaleBlocks(res) ==
    IF \E ds \in Datasets : res[ds].st = "threw" THEN "rejected"
    ELSE IF \E ds \in Datasets : res[ds].st \in {"pending", "stale"} THEN "pending"
    ELSE "fulfilled"

\* Promise.all: rejected with the first rejection, fulfilled with the last
\* fulfilment
promiseAll(res) ==
    IF \E ds \in Datasets : res[ds].st = "threw" THEN "rejected"
    ELSE IF \E ds \in Datasets : res[ds].st = "pending" THEN "pending"
    ELSE "fulfilled"

\* what the caller gets once the promise of Promise.all settles with res
settle(args, res) ==
    IF promiseAll(res) = "fulfilled"
    THEN computeQuote(MatrixPayload(res["matrix"].data),
                      IndexPayload(res["index"].data),
                      DepthPayload(res["depth"].data),
                      args.caratWeight, args.colorGrade, args.shape,
                      args.clarityGrade, now)
    ELSE Rejected(NoCachedData)

\* a getter of the call in progress gives back r for dataset ds
Deliver(ds, r) ==
    IF pin.settled
    THEN UNCHANGED <<pin, pout>>
    ELSE LET res == [pin.res EXCEPT ![ds] = r]
         IN  IF promiseAll(res) = "pending"
             THEN pin' = [pin EXCEPT !.res = res] /\ pout' = pout
             ELSE /\ pin' = [pin EXCEPT !.res = res, !.settled = TRUE]
                  /\ pout' = [done |-> TRUE] @@ settle(pin.args, res)

\* calculateDiamondPrice is called: the three getters run their cache checks
StartPricing(args) ==
    /\ calls = EmptyBag
    /\ LET res == [ds \in Datasets |->
                      IF servesFromCache(FALSE, storage[ds], now)
                      THEN [st |-> "hit", data |-> storage[ds].data,
                            expired |-> FALSE]
                      ELSE Pending]
       IN  /\ calls' = SetToBag({[pc |-> "fetch", ds |-> ds, data |-> 0, at |-> 0,
                                  entry |-> NoEntry] :
                                    ds \in {d \in Datasets : res[d].st = "pending"}})
           /\ IF promiseAll(res) = "pending"
              THEN /\ pin' = [done |-> TRUE, args |-> args, res |-> res,
                              settled |-> FALSE]
                   /\ pout' = NotRun
              ELSE /\ pin' = [done |-> TRUE, args |-> args, res |-> res,
                              settled |-> TRUE]
                   /\ pout' = [done |-> TRUE] @@ settle(args, res)
    /\ UNCHANGED <<now, storage, ev>>

\* a getter's fetch succeeds with payload p: createCacheEntry, setItem issued
QFetchOk(c, p) ==
    /\ c.pc = "fetch"
    /\ calls' = Replace(c, [c EXCEPT !.pc = "store", !.data = p, !.at = now,
                                     !.entry = createCacheEntry(p, now)])
    /\ UNCHANGED <<now, storage, ev, pin, pout>>

\* setItem lands and the getter fulfils with the fetched data
QStoreDone(c) ==
    /\ c.pc = "store"
    /\ storage' = setItem(storage, c.ds, c.entry)
    /\ calls' = calls (-) SetToBag({c})
    /\ Deliver(c.ds, [st |-> "fresh", data |-> c.data, expired |-> FALSE])
    /\ UNCHANGED <<now, ev>>

\* a getter's fetch fails: the catch-block fulfils with the entry in storage
\* or rejects
QFetchFail(c) ==
    /\ c.pc = "fetch"
    /\ LET cached == storage[c.ds]
           out == catchOutcome(cached)
       IN  IF out.kind = "return"
           THEN Deliver(c.ds, [st |-> "stale", data |-> out.data,
                               expired |-> ~isCacheValid(cached, now)])
           ELSE Deliver(c.ds, [st |-> "threw", data |-> 0, expired |-> FALSE])
    /\ calls' = calls (-) SetToBag({c})
    /\ UNCHANGED <<now, storage, ev>>

InitQuote ==
    /\ now = 0
    /\ storage = [d \in Datasets |-> NoEntry]
    /\ calls = EmptyBag
    /\ ev = [op |-> "init"]
    /\ pin = NotRun
    /\ pout = NotRun

NextQuote ==
    \/ \E args \in QuoteArgs : StartPricing(args)
    \/ \E c \in InFlight : \E p \in PayloadsOf(c.ds) : QFetchOk(c, p)
    \/ \E c \in InFlight : QStoreDone(c)
    \/ \E c \in InFlight : QFetchFail(c)
    \/ clearPricingCache
    \/ Tick

SpecQuote == InitQuote /\ [][NextQuote]_vars

-----------------------------------------------------------------------------
(* Claims about calculateDiamondPrice, checked under SpecQuote *)

QuoteFields ==
    {"done", "ok", "perCaratPrice", "totalPrice", "priceRange", "dcxIndex",
     "trend24h", "confidence", "marketDepth", "timestamp", "details"}

SomeGetterThrew == \E ds \in Datasets : pin.res[ds].st = "threw"

\* with the matrix the call got, the band or grid lookup throws
GridLookupFails ==
    consoleLog(MatrixPayload(pin.res["matrix"].data), pin.args.caratWeight,
               pin.args.colorGrade, pin.args.clarityGrade).reached
      # "interpolation"

\* C4: a call of calculateDiamondPrice gives nothing before it settles, and
\* then either a quote with every field or an error whose message starts
\* with "Failed to calculate price: "; it gives the error exactly when a
\* getter threw or the grid lookup failed; and when the matrix getter served
\* its stored entry after a failed fetch and no getter threw, the quote is
\* the one computed from that stored matrix.
C4_AllOrNothing ==
    /\ (pin.done /\ ~pin.settled) => pout = NotRun
    /\ (pin.done /\ pin.settled) =>
          /\ pout.done
          /\ pout.ok =>
                /\ DOMAIN pout = QuoteFields
                /\ \A ds \in Datasets : pin.res[ds].st \in {"hit", "fresh", "stale"}
          /\ ~pout.ok =>
                /\ DOMAIN pout = {"done", "ok", "message"}
                /\ pout.message[1] = "Failed to calculate price: "
          /\ SomeGetterThrew =>
                ~pout.ok /\ pout.message[2] = NoCachedData
          /\ ~SomeGetterThrew =>
                /\ GridLookupFails => ~pout.ok /\ pout.message[2] # NoCachedData
                /\ ~GridLookupFails => pout.ok
          /\ (pin.res["matrix"].st = "stale" /\ ~SomeGetterThrew /\ ~GridLookupFails) =>
                /\ pout.ok
                /\ pout = [done |-> TRUE] @@
                      computeQuote(MatrixPayload(pin.res["matrix"].data),
                                   IndexPayload(pin.res["index"].data),
                                   DepthPayload(pin.res["depth"].data),
                                   pin.args.caratWeight, pin.args.colorGrade,
                                   pin.args.shape, pin.args.clarityGrade,
                                   pout.timestamp)

\* the matrix fetch failed, the stored two-band matrix had expired, the other
\* two datasets were fetched, and the quote is interpolated between the two
\* bands of the stored matrix
C4_Witness ==
    /\ pin.done /\ pin.settled
    /\ pin.res["matrix"] = [st |-> "stale", data |-> 2, expired |-> TRUE]
    /\ pin.res["index"].st = "fresh"
    /\ pin.res["depth"].st = "fresh"
    /\ pout.ok
    /\ pout.details.caratBand1 = 50
    /\ pout.details.caratBand2 = 150

\* a step of a pricing request: the call itself or one of its getters
RequestStep == <<calls, pin, pout>>' # <<calls, pin, pout>>

\* a quote was returned at this very time, no getter is in flight, and the
\* step is a second call with the same arguments that settles at once
SecondCallInSuccession ==
    /\ calls = EmptyBag
    /\ pin.done /\ pin.settled /\ pout.done /\ pout.ok
    /\ pout.timestamp = now
    /\ RequestStep
    /\ pin'.args = pin.args
    /\ pin'.settled

\* the two quotes agree in every field but the creation timestamp
SameQuoteButTimestamp ==
    /\ pout'.ok
    /\ [pout' EXCEPT !.timestamp = 0] = [pout EXCEPT !.timestamp = 0]

\* C17 as stated: a second call in succession with the same arguments and no
\* clock advance returns the same quote up to its timestamp, and no step of
\* a pricing request changes the stored cache entries.
C17_ReadOnlyIdempotent ==
    /\ [][SecondCallInSuccession => SameQuoteButTimestamp]_vars
    /\ [][RequestStep => storage' = storage]_vars

\* C17 amended: a second call in succession with the same arguments and no
\* clock advance returns the same quote up to its timestamp; a call that
\* finds the three stored entries valid starts no fetch and leaves storage
\* as it is; and a step of a pricing request changes storage only by
\* replacing the entry of one dataset, which its getter had to fetch, with
\* the whole entry made from the fetched payload.
C17_IdempotentCacheFilling ==
    /\ [][SecondCallInSuccession => SameQuoteButTimestamp]_vars
    /\ [][(/\ calls = EmptyBag
           /\ RequestStep
           /\ \A d \in Datasets : isCacheValid(storage[d], now)) =>
             /\ calls' = EmptyBag
             /\ storage' = storage
             /\ pin'.settled
             /\ pout'.done]_vars
    /\ [][(RequestStep /\ storage' # storage) =>
             \E c \in InFlight :
                /\ c.pc = "store"
                /\ c.entry = createCacheEntry(c.data, c.at)
                /\ storage' = [storage EXCEPT ![c.ds] = c.entry]
                /\ calls' = calls (-) SetToBag({c})]_vars

\* a call served from the cache alone, at the time its quote was made: an
\* earlier call has filled the three entries
C17_Witness ==
    /\ pin.done /\ pin.settled
    /\ \A d \in Datasets : pin.res[d].st = "hit"
    /\ pout.ok
    /\ pout.timestamp = now
    /\ calls = EmptyBag
    /\ \A d \in Datasets : storage[d].present

-----------------------------------------------------------------------------
(* calculateDiamondPrice when every fetch eventually responds or fails and *)
(* every storage operation eventually completes: a getter in flight        *)
(* eventually takes its next step.                                          *)

\* what a step of a getter in flight does to calls: its fetch responds and
\* the write is issued (QFetchOk), or the getter finishes (QStoreDone,
\* QFetchFail).  No other step of NextQuote changes calls while a getter is
\* in flight, so the steps of NextQuote that are GetterStep steps are
\* exactly those of QFetchOk, QStoreDone and QFetchFail, and GetterStep is
\* enabled exactly when one of them is.
GetterStep ==
    \E c \in InFlight :
        \/ /\ c.pc = "fetch"
           /\ \E p \in PayloadsOf(c.ds) :
                 calls' = Replace(c, [c EXCEPT !.pc = "store", !.data = p,
                                               !.at = now,
                                               !.entry = createCacheEntry(p, now)])
        \/ calls' = calls (-) SetToBag({c})

SpecQuoteLive == InitQuote /\ [][NextQuote]_vars /\ WF_calls(GetterStep)

\* a call has been made and its promise has not settled
CallPending == IF pin.done THEN ~pin.settled ELSE FALSE

\* the call has returned a quote or rejected
CallSettled == IF pin.done THEN pin.settled /\ pout.done ELSE FALSE

\* C18: a call that has not settled has a getter in flight for each dataset
\* it still waits for (the getters were all started by the call itself), and
\* it eventually settles with a quote or a rejection.
C18_EventuallySettles ==
    /\ [](CallPending =>
            /\ pout = NotRun
            /\ \A d \in Datasets :
                  pin.res[d].st = "pending" => \E c \in InFlight : c.ds = d)
    /\ CallPending ~> CallSettled

\* a call that settled with a quote after fetching the three datasets
C18_Witness ==
    /\ pin.done /\ pin.settled
    /\ \A d \in Datasets : pin.res[d].st = "fresh"
    /\ pout.done /\ pout.ok

-----------------------------------------------------------------------------
(* The pricing fields of the diamond Redux slice: store/hooks.ts.  calls   *)
(* holds the fetchDiamondPrice requests that were dispatched and are not   *)
(* settled, each with the carat prediction it read from the state; pin is  *)
(* the caratPrediction field and pout the fields isPricingLoading,         *)
(* pricingError and pricingData.  A field that may be null is a sequence,  *)
(* empty for null.  The color prediction and the shape detection are       *)
(* taken to be there.                                                      *)

MaxRequests == 2

CaratRequired == "Carat weight is required for pricing"

\* the state.diamond fields of initialState
InitSlice ==
    /\ now = 0
    /\ storage = [d \in Datasets |-> NoEntry]
    /\ calls = EmptyBag
    /\ ev = [op |-> "init"]
    /\ pin = [caratPrediction |-> <<>>]
    /\ pout = [isPricingLoading |-> FALSE, pricingError |-> <<>>,
               pricingData |-> <<>>]

setManualCaratWeight(caratWeight) ==
    /\ pin' = [caratPrediction |-> <<caratWeight>>]
    /\ ev' = [op |-> "setManualCaratWeight"]
    /\ UNCHANGED <<now, storage, calls, pout>>

clearCaratPrediction ==
    /\ pin' = [caratPrediction |-> <<>>]
    /\ ev' = [op |-> "clearCaratPrediction"]
    /\ UNCHANGED <<now, storage, calls, pout>>

\* dispatch(fetchDiamondPrice()): the pending reducer runs at once and the
\* payload creator reads the predictions.  Without a carat prediction it
\* throws before its first await, and the rejected reducer runs before any
\* other event is handled; otherwise the request waits for
\* calculateDiamondPrice.
DispatchFetchDiamondPrice ==
    /\ BagCardinality(calls) < MaxRequests
    /\ IF pin.caratPrediction = <<>>
       THEN /\ calls' = calls
            /\ pout' = [isPricingLoading |-> FALSE,
                        pricingError |-> <<CaratRequired>>,
                        pricingData |-> <<>>]
            /\ ev' = [op |-> "rejected"]
       ELSE /\ calls' = calls (+) SetToBag({[pc |-> "thunk",
                                             caratPrediction |-> pin.caratPrediction]})
            /\ pout' = [pout EXCEPT !.isPricingLoading = TRUE,
                                    !.pricingError = <<>>]
            /\ ev' = [op |-> "pending"]
    /\ UNCHANGED <<now, storage, pin>>

\* calculateDiamondPrice returned a quote: the fulfilled reducer
Fulfilled(c, quote) ==
    /\ calls' = calls (-) SetToBag({c})
    /\ pout' = [isPricingLoading |-> FALSE, pricingError |-> <<>>,
                pricingData |-> <<quote>>]
    /\ ev' = [op |-> "fulfilled"]
    /\ UNCHANGED <<now, storage, pin>>

\* calculateDiamondPrice threw and the payload creator returned
\* rejectWithValue(error.message): the rejected reducer
RejectedWithValue(c) ==
    /\ calls' = calls (-) SetToBag({c})
    /\ pout' = [isPricingLoading |-> FALSE,
                pricingError |-> <<"Failed to calculate price: ">>,
                pricingData |-> <<>>]
    /\ ev' = [op |-> "rejected"]
    /\ UNCHANGED <<now, storage, pin>>

clearPricingData ==
    /\ pout' = [isPricingLoading |-> FALSE, pricingError |-> <<>>,
                pricingData |-> <<>>]
    /\ ev' = [op |-> "clearPricingData"]
    /\ UNCHANGED <<now, storage, calls, pin>>

NextSlice ==
    \/ \E caratWeight \in {50, 125} : setManualCaratWeight(caratWeight)
    \/ clearCaratPrediction
    \/ DispatchFetchDiamondPrice
    \/ \E c \in InFlight, quote \in Payloads : Fulfilled(c, quote)
    \/ \E c \in InFlight : RejectedWithValue(c)
    \/ clearPricingData

SpecSlice == InitSlice /\ [][NextSlice]_vars

\* C29: isPricingLoading is true exactly when a fetchDiamondPrice request
\* has been started and is not yet fulfilled or rejected.
C29_LoadingIffRequestPending ==
    pout.isPricingLoading <=> calls # EmptyBag

====
